---- MODULE Spec2Model ----
(***************************************************************************)
(* Request lifecycle of the chat component of src/src/App.tsx: debounced   *)
(* input, submission, the single outbound completion request with its      *)
(* abort controller and 30 s timer, and the capped message history.        *)
(*                                                                         *)
(* Texts are sequences of characters so that String.prototype.trim is a    *)
(* computation.  The fixed message texts of the catch block are one-token  *)
(* sequences.  The JavaScript event loop is modelled at the granularity it *)
(* gives the code: the synchronous part of sendMessage (up to the await)   *)
(* is one step, and each settlement of the awaited promise together with   *)
(* the catch/finally continuation that the microtask queue runs right      *)
(* after it is one step.  React state is the value last handed to its      *)
(* setter.                                                                 *)
(***************************************************************************)
EXTENDS Integers, Sequences, FiniteSets, TLC

\* ---------------------------------------------------------------- bounds
MaxRequests == 3

\* ------------------------------------------------------- program constants
MAX_MESSAGES == 3

RATE_LIMIT_STATUS == 429

RATE_LIMIT_TEXT == <<"Rate limit exceeded. Please try again later.">>

GENERIC_ERROR_TEXT == <<"Error: Failed to get response">>

\* ------------------------------------------------------------ value sets
Null == 0

NoValue == <<"<no pending call>">>

NoStatus == 0

WhiteSpace == {" ", "\t", "\n"}

\* what the user can have typed into the textarea
Texts == {<<>>, <<" ", "\n">>, <<" ", "a", " ", "b", "\t">>}

\* choices[0].message.content of a well-formed body
Contents == {<<"x">>, <<"y">>}

Statuses == {429, 500}

\* what createMessageId can return: Date.now() is the wall clock, which can
\* repeat a value, and Math.random() can repeat an output, so two calls may
\* return the same string
Ids == {1, 2}

RequestIds == 1..MaxRequests

VARIABLES
    input,               \* useState('')                     (line 23)
    messages,            \* useState<Message[]>([])          (line 24)
    isLoading,           \* useState(false)                  (line 25)
    abortControllerRef,  \* useRef<AbortController | null>   (line 26)
    debounced,           \* last argument held by the debounce timer
    requests,            \* the axios.post calls made so far, by request
    issued,              \* number of axios.post calls made so far
    timers,              \* armed 30 s timers, in arming order
    mounted,             \* the component has not been torn down
    event                \* the handler that ran last and what it did

vars == <<input, messages, isLoading, abortControllerRef, debounced,
          requests, issued, timers, mounted, event>>

\* ------------------------------------------------------- pure functions

\* String.prototype.trim
RECURSIVE TrimStart(_)
TrimStart(s) ==
    IF s = <<>> THEN <<>>
    ELSE IF Head(s) \in WhiteSpace THEN TrimStart(Tail(s))
    ELSE s

RECURSIVE TrimEnd(_)
TrimEnd(s) ==
    IF s = <<>> THEN <<>>
    ELSE IF s[Len(s)] \in WhiteSpace THEN TrimEnd(SubSeq(s, 1, Len(s) - 1))
    ELSE s

TrimIdentity(s) == s

Trim(s) == TrimEnd(TrimStart(s))

\* Array.prototype.slice(-n): the last n elements; slice(-0) is slice(0)
SliceFirst(s, n) ==
    IF n >= Len(s) THEN s
    ELSE SubSeq(s, 1, n)

SliceLast(s, n) ==
    IF n = 0 \/ n >= Len(s) THEN s
    ELSE SubSeq(s, Len(s) - n + 1, Len(s))

setMessagesWithLimitOffByOne(newMessages) ==
    IF Len(newMessages) > MAX_MESSAGES + 1
    THEN SliceLast(newMessages, MAX_MESSAGES + 1)
    ELSE newMessages

setMessagesWithLimit(newMessages) ==
    IF Len(newMessages) > MAX_MESSAGES
    THEN SliceLast(newMessages, MAX_MESSAGES)
    ELSE newMessages

Message(text, isUser, id) == [text |-> text, isUser |-> isUser, id |-> id]

\* const userMessage = { text: trimmedInput, isUser: true, id: ... }
UserMessage(trimmedInput, id) == Message(trimmedInput, TRUE, id)

\* const botMessage = { text: response.data.choices[0].message.content, ... }
BotMessageAsUser(content, id) == Message(content, TRUE, id)

BotMessage(content, id) == Message(content, FALSE, id)

\* the guard of sendMessage: if (!trimmedInput || isLoading) return
CanSubmitIgnoringLoading(trimmedInput, loading) == trimmedInput # <<>>

CanSubmit(trimmedInput, loading) == trimmedInput # <<>> /\ ~loading

\* the values the awaited axios.post can reject with, and the TypeError
\* that reading choices[0] of a body without choices throws
CanceledError == [isAxiosError |-> TRUE, name |-> "CanceledError", status |-> NoStatus]

HttpError(status) == [isAxiosError |-> TRUE, name |-> "AxiosError", status |-> status]

NetworkError == [isAxiosError |-> TRUE, name |-> "AxiosError", status |-> NoStatus]

TypeError == [isAxiosError |-> FALSE, name |-> "TypeError", status |-> NoStatus]

\* axios.isAxiosError(error) && error.name === 'CanceledError'
IsCanceledNever(error) == FALSE

IsCanceled(error) == error.isAxiosError /\ error.name = "CanceledError"

\* the text of errorMessage
ErrorTextAlwaysGeneric(error) == GENERIC_ERROR_TEXT

ErrorText(error) ==
    IF error.isAxiosError /\ error.status = RATE_LIMIT_STATUS
    THEN RATE_LIMIT_TEXT
    ELSE GENERIC_ERROR_TEXT

\* the handler that ran, the request it issued or settled (Null if none) and
\* its argument: the controller sendMessage found, the owner of the timer,
\* the status or the content of the response
Event(op, req, arg) == [op |-> op, req |-> req, arg |-> arg]

\* the messages of the body of axios.post:
\* [{ role: 'user', content: userMessage.text }]
RequestMessagesWithHistory(userMessage, history) ==
    [i \in 1..(Len(history) + 1) |->
        IF i <= Len(history)
        THEN [role |-> IF history[i].isUser THEN "user" ELSE "assistant",
              content |-> history[i].text]
        ELSE [role |-> "user", content |-> userMessage.text]]

RequestMessages(userMessage, history) ==
    <<[role |-> "user", content |-> userMessage.text]>>

RequestBody(requestMessages) ==
    [model |-> "gpt-3.5-turbo", messages |-> requestMessages]

\* a request holds the userMessage of the sendMessage call that made it and
\* the body that call posted
Unissued ==
    [state |-> "unissued", userMessage |-> UserMessage(<<>>, Null),
     body |-> RequestBody(<<>>)]

Pending(userMessage) ==
    [state |-> "pending", userMessage |-> userMessage,
     body |-> RequestBody(RequestMessages(userMessage, messages))]

IsPending(c) == c # Null /\ requests[c].state = "pending"

\* ----------------------------------------------------------------- Init
Init ==
    /\ input = <<>>
    /\ messages = <<>>
    /\ isLoading = FALSE
    /\ abortControllerRef = Null
    /\ debounced = NoValue
    /\ requests = [r \in RequestIds |-> Unissued]
    /\ issued = 0
    /\ timers = <<>>
    /\ mounted = TRUE
    /\ event = Event("mount", Null, Null)

\* -------------------------------------------------------------- handlers

\* textarea onChange: debouncedSetInput(e.target.value); the textarea is
\* disabled while isLoading
Change(value) ==
    /\ mounted
    /\ ~isLoading
    /\ debounced' = value
    /\ event' = Event("change", Null, Null)
    /\ UNCHANGED <<input, messages, isLoading, abortControllerRef,
                   requests, issued, timers, mounted>>

\* trailing edge of debounce(..., 150): setInput(value)
DebounceFire ==
    /\ debounced # NoValue
    /\ input' = debounced
    /\ debounced' = NoValue
    /\ event' = Event("debounce", Null, Null)
    /\ UNCHANGED <<messages, isLoading, abortControllerRef,
                   requests, issued, timers, mounted>>

\* catch block: a cancelled request returns, any other error appends
\* errorMessage
Catch(error) ==
    IF IsCanceled(error)
    THEN UNCHANGED messages
    ELSE \E id \in Ids :
            messages' = setMessagesWithLimit(
                Append(messages, Message(ErrorText(error), FALSE, id)))

\* finally block
FinallySkipped ==
    /\ UNCHANGED isLoading
    /\ abortControllerRef' = Null

FinallyKeepsRef ==
    /\ isLoading' = FALSE
    /\ UNCHANGED abortControllerRef

Finally ==
    /\ isLoading' = FALSE
    /\ abortControllerRef' = Null

\* sendMessage up to the await of axios.post (handleKeyPress and the
\* button's onClick both call it)
SendMessage ==
    /\ mounted
    /\ LET trimmedInput == Trim(input) IN
       IF ~CanSubmit(trimmedInput, isLoading)
       THEN /\ event' = Event("sendMessage", Null, Null)
            /\ UNCHANGED <<input, messages, isLoading, abortControllerRef,
                           debounced, requests, issued, timers, mounted>>
       ELSE /\ issued < MaxRequests
            /\ LET new == issued + 1
                   prev == abortControllerRef
               IN  /\ \E id \in Ids :
                        LET userMessage == UserMessage(trimmedInput, id) IN
                        /\ messages' = setMessagesWithLimit(
                               Append(messages, userMessage))
                        /\ IF IsPending(prev)
                           THEN \* cancelPreviousRequest aborted prev: its
                                \* catch and finally run once this call
                                \* has reached its await
                                /\ requests' = [requests EXCEPT
                                       ![prev].state = "canceled",
                                       ![new] = Pending(userMessage)]
                                /\ Finally
                           ELSE /\ requests' = [requests EXCEPT
                                       ![new] = Pending(userMessage)]
                                /\ isLoading' = TRUE
                                /\ abortControllerRef' = new
                   /\ input' = <<>>
                   /\ issued' = new
                   /\ timers' = Append(timers, new)
                   /\ event' = Event("sendMessage", new, prev)
                   /\ UNCHANGED <<debounced, mounted>>

RemoveTimer(r) == SelectSeq(timers, LAMBDA t : t # r)

\* the post resolves with a body that has choices[0].message.content
ResponseSuccess(r, content) ==
    /\ requests[r].state = "pending"
    /\ timers' = RemoveTimer(r)
    /\ \E id \in Ids :
          messages' = setMessagesWithLimit(
              Append(messages, BotMessage(content, id)))
    /\ requests' = [requests EXCEPT ![r].state = "succeeded"]
    /\ Finally
    /\ event' = Event("success", r, content)
    /\ UNCHANGED <<input, debounced, issued, mounted>>

\* the post resolves with a body without choices: line 105 throws
ResponseMalformed(r) ==
    /\ requests[r].state = "pending"
    /\ timers' = RemoveTimer(r)
    /\ Catch(TypeError)
    /\ requests' = [requests EXCEPT ![r].state = "failed"]
    /\ Finally
    /\ event' = Event("malformed", r, Null)
    /\ UNCHANGED <<input, debounced, issued, mounted>>

\* the post rejects with a response of a non-2xx status
ResponseHttpError(r, status) ==
    /\ requests[r].state = "pending"
    /\ Catch(HttpError(status))
    /\ requests' = [requests EXCEPT ![r].state = "failed"]
    /\ Finally
    /\ event' = Event("httpError", r, status)
    /\ UNCHANGED <<input, debounced, issued, timers, mounted>>

\* the post rejects without a response
ResponseNetworkError(r) ==
    /\ requests[r].state = "pending"
    /\ Catch(NetworkError)
    /\ requests' = [requests EXCEPT ![r].state = "failed"]
    /\ Finally
    /\ event' = Event("networkError", r, Null)
    /\ UNCHANGED <<input, debounced, issued, timers, mounted>>

\* abortControllerRef.current.abort() from a timer or the effect cleanup:
\* a pending post rejects with CanceledError
AbortCurrentSkipped ==
    UNCHANGED <<requests, messages, isLoading, abortControllerRef>>

AbortCurrent ==
    IF IsPending(abortControllerRef)
    THEN /\ requests' = [requests EXCEPT ![abortControllerRef].state = "canceled"]
         /\ Catch(CanceledError)
         /\ Finally
    ELSE UNCHANGED <<requests, messages, isLoading, abortControllerRef>>

\* the callback of setTimeout(..., 30000); equal delays fire in arming order
TimerFire ==
    /\ timers # <<>>
    /\ timers' = Tail(timers)
    /\ AbortCurrent
    /\ event' = Event("timeout", abortControllerRef, Head(timers))
    /\ UNCHANGED <<input, debounced, issued, mounted>>

\* cleanup of the mount effect
Unmount ==
    /\ mounted
    /\ mounted' = FALSE
    /\ AbortCurrent
    /\ event' = Event("unmount", abortControllerRef, Null)
    /\ UNCHANGED <<input, debounced, issued, timers>>

Next ==
    \/ \E value \in Texts : Change(value)
    \/ DebounceFire
    \/ SendMessage
    \/ \E r \in RequestIds, content \in Contents : ResponseSuccess(r, content)
    \/ \E r \in RequestIds : ResponseMalformed(r)
    \/ \E r \in RequestIds, status \in Statuses : ResponseHttpError(r, status)
    \/ \E r \in RequestIds : ResponseNetworkError(r)
    \/ TimerFire
    \/ Unmount

Spec == Init /\ [][Next]_vars

\* every armed timer that is not cleared fires
FairSpec == Spec /\ WF_vars(TimerFire)

TypeOK ==
    /\ input \in Texts
    /\ isLoading \in BOOLEAN
    /\ abortControllerRef \in RequestIds \cup {Null}
    /\ debounced \in Texts \cup {NoValue}
    /\ issued \in 0..MaxRequests
    /\ mounted \in BOOLEAN
    /\ \A i \in 1..Len(messages) :
          /\ messages[i].isUser \in BOOLEAN
          /\ messages[i].id \in Ids
    /\ \A i \in 1..Len(timers) : timers[i] \in RequestIds

\* ---------------------------------------------------------------- claims

Last(s) == s[Len(s)]

PendingRequests == {r \in RequestIds : requests[r].state = "pending"}

\* s is empty or consists only of whitespace
IsBlank(s) == \A i \in 1..Len(s) : s[i] \in WhiteSpace

\* t is s without its leading and trailing whitespace
IsTrimOf(t, s) ==
    \E i \in 1..(Len(s) + 1), j \in 0..Len(s) :
        /\ t = SubSeq(s, i, j)
        /\ \A k \in 1..Len(s) : (k < i \/ k > j) => s[k] \in WhiteSpace
        /\ t # <<>> => (t[1] \notin WhiteSpace /\ Last(t) \notin WhiteSpace)

\* this step appended exactly the message m to the history
AppendedOnly(m) == messages' = setMessagesWithLimit(Append(messages, m))

\* this step appended exactly one bot-authored message to the history
AppendedOneBotMessage ==
    /\ messages' # <<>>
    /\ ~Last(messages').isUser
    /\ AppendedOnly(Last(messages'))

\* this step is a call of sendMessage
IsSendMessageCall == event'.op = "sendMessage"

\* this step ended request r with the given state
Ends(r, state) == requests[r].state = "pending" /\ requests'[r].state = state

\* C1: a sendMessage call with non-empty input made while a request is
\* pending cancels that request, so that its result is never appended.
C1_SecondRequestCancelsFirst ==
    [][(IsSendMessageCall /\ ~IsBlank(input) /\ PendingRequests # {})
        => \A r \in PendingRequests : requests'[r].state = "canceled"]_vars

\* C2: a request still pending when its own 30 s timer fires gets the
\* generic failure message appended to the history as a bot message.
C2_TimeoutAppendsGenericError ==
    [][(event'.op = "timeout" /\ IsPending(event'.req)
            /\ event'.arg = event'.req)
        => /\ AppendedOneBotMessage
           /\ Last(messages').text = GENERIC_ERROR_TEXT]_vars

\* C3: every request of an accepted submission that ends in failure
\* (network error, HTTP error status, abort, malformed body) ends with a
\* bot-authored message appended to the history.
C3_EveryFailureAppendsBotMessage ==
    [][\A r \in RequestIds :
          (Ends(r, "failed") \/ Ends(r, "canceled")) => AppendedOneBotMessage]_vars

\* C4: whenever isLoading is true it eventually is false again, with the
\* abort-controller reference reset to null.
C4_LoadingEventuallyEnds ==
    isLoading ~> (~isLoading /\ abortControllerRef = Null)

\* a request that got no answer was ended by its timer and input is
\* available again
C4_Witness ==
    /\ event.op = "timeout"
    /\ event.req # Null
    /\ requests[event.req].state = "canceled"
    /\ ~isLoading
    /\ abortControllerRef = Null

\* C5: at most one request is in flight in every reachable state.
C5_AtMostOneInFlight == Cardinality(PendingRequests) <= 1

\* sendMessage was called with text to send while a request was in flight
C5_Witness ==
    /\ event.op = "sendMessage"
    /\ event.req = Null
    /\ ~IsBlank(input)
    /\ Cardinality(PendingRequests) = 1
    /\ issued >= 2

\* C6: the history never holds more than MAX_MESSAGES messages.
C6_HistoryWithinCap == Len(messages) <= MAX_MESSAGES

\* two exchanges were appended in full, more than the cap holds
C6_Witness ==
    /\ requests[1].state = "succeeded"
    /\ requests[2].state = "succeeded"
    /\ 4 > MAX_MESSAGES
    /\ Len(messages) = MAX_MESSAGES

\* C7: a request that ends because its controller was aborted leaves the
\* history as it was.
C7_CancellationIsSilent ==
    [][\A r \in RequestIds : Ends(r, "canceled") => UNCHANGED messages]_vars

\* a request was aborted while the history held its user message
C7_Witness ==
    \E r \in RequestIds :
        /\ requests[r].state = "canceled"
        /\ event.op \in {"timeout", "unmount"}
        /\ event.req = r
        /\ messages # <<>>
        /\ Last(messages) = requests[r].userMessage

\* C8: a request that fails without being cancelled appends exactly one bot
\* message, whose text is the rate-limit text if the response status is 429
\* and the generic failure text otherwise.
C8_FailureText ==
    [][\A r \in RequestIds :
          Ends(r, "failed") =>
              /\ AppendedOneBotMessage
              /\ Last(messages').text =
                    IF event'.op = "httpError" /\ event'.arg = 429
                    THEN <<"Rate limit exceeded. Please try again later.">>
                    ELSE <<"Error: Failed to get response">>]_vars

\* a 429 response produced the rate-limit text
C8_Witness ==
    /\ event.op = "httpError"
    /\ event.arg = 429
    /\ requests[event.req].state = "failed"
    /\ messages # <<>>
    /\ Last(messages).text = RATE_LIMIT_TEXT
    /\ \E r \in RequestIds : r # event.req /\ requests[r].state = "failed"

\* C9: an accepted submission appends exactly one user message whose text is
\* the trimmed input, and the success of its request appends exactly one bot
\* message with the server-provided content right after that user message.
C9_SuccessfulExchange ==
    [][/\ (IsSendMessageCall /\ event'.req # Null) =>
            /\ messages' # <<>>
            /\ AppendedOnly(Last(messages'))
            /\ Last(messages').isUser
            /\ IsTrimOf(Last(messages').text, input)
            /\ requests'[event'.req].userMessage = Last(messages')
       /\ \A r \in RequestIds :
            Ends(r, "succeeded") =>
                /\ messages # <<>>
                /\ Last(messages) = requests[r].userMessage
                /\ AppendedOneBotMessage
                /\ Last(messages').text = event'.arg
                /\ Len(messages') >= 2
                /\ messages'[Len(messages') - 1] = requests[r].userMessage]_vars

\* an exchange completed with the history at its cap
C9_Witness ==
    /\ event.op = "success"
    /\ requests[event.req].state = "succeeded"
    /\ event.req >= 2
    /\ Len(messages) = MAX_MESSAGES
    /\ Last(messages).text = event.arg
    /\ messages[Len(messages) - 1] = requests[event.req].userMessage

\* C10: a sendMessage call with empty or whitespace-only input changes
\* nothing and issues no request.
C10_BlankInputIsNoOp ==
    [][(IsSendMessageCall /\ IsBlank(input))
        => UNCHANGED <<input, messages, isLoading, abortControllerRef,
                       debounced, requests, issued, timers>>]_vars

\* sendMessage was called with whitespace-only input while idle
C10_Witness ==
    /\ event.op = "sendMessage"
    /\ event.req = Null
    /\ input # <<>>
    /\ IsBlank(input)
    /\ ~isLoading

\* C11: no two messages of the history have the same id.
C11_MessageIdsUnique ==
    \A i, j \in 1..Len(messages) :
        i # j => messages[i].id # messages[j].id

\* t is a suffix of s
IsSuffix(t, s) ==
    /\ Len(t) <= Len(s)
    /\ t = SubSeq(s, Len(s) - Len(t) + 1, Len(s))

\* this step is one of the history updates of sendMessage: the user message
\* of an accepted call, the reply, or the error message
IsHistoryUpdate ==
    \/ IsSendMessageCall /\ event'.req # Null
    \/ \E r \in RequestIds : Ends(r, "succeeded") \/ Ends(r, "failed")

\* C12: every update leaves the history a suffix of the previous history
\* followed by one new message; entries are dropped, oldest first, only when
\* the cap is exceeded; no other step touches the history.
C12_AppendOnlyWithFrontEviction ==
    [][IF IsHistoryUpdate
       THEN /\ messages' # <<>>
            /\ IsSuffix(messages', Append(messages, Last(messages')))
            /\ Len(messages') = IF Len(messages) + 1 > MAX_MESSAGES
                                THEN MAX_MESSAGES
                                ELSE Len(messages) + 1
       ELSE messages' = messages]_vars

\* the oldest entries were evicted: the history is full and its first entry
\* is a reply, the user message before it gone
C12_Witness ==
    /\ Len(messages) = MAX_MESSAGES
    /\ ~messages[1].isUser
    /\ messages[2].isUser
    /\ event.op = "sendMessage"
    /\ event.req = 3

\* C13: the timer callback aborts a request only if the timer was armed for
\* that same request.
C13_TimeoutAbortsOwnRequestOnly ==
    [][(event'.op = "timeout" /\ IsPending(event'.req)
            /\ requests'[event'.req].state = "canceled")
        => event'.arg = event'.req]_vars

\* C14: the abort-controller reference is non-null only while isLoading is
\* true, and while isLoading is false no request is outstanding and the
\* reference is null.
C14_LoadingTracksRequest ==
    /\ abortControllerRef # Null => isLoading
    /\ ~isLoading => (PendingRequests = {} /\ abortControllerRef = Null)
    /\ PendingRequests # {} => (isLoading /\ PendingRequests = {abortControllerRef})

\* a second request is outstanding after the first was aborted
C14_Witness ==
    /\ requests[1].state = "canceled"
    /\ IsPending(2)
    /\ abortControllerRef = 2
    /\ isLoading

\* the text the user typed last: the argument the debounce still holds, or
\* the input state once the debounce has delivered it
LastTyped == IF debounced # NoValue THEN debounced ELSE input

\* C15: the text an accepted submission sends is the trimmed text the user
\* typed last, and while its request is pending (the textarea is disabled, so
\* no change event occurs) the cleared input stays empty.
C15_ClearedInputStaysEmpty ==
    [][/\ (IsSendMessageCall /\ event'.req # Null) =>
            IsTrimOf(requests'[event'.req].userMessage.text, LastTyped)
       /\ (isLoading /\ isLoading' /\ input = <<>>) => input' = <<>>]_vars

\* C16: tearing the component down aborts the pending request, and no
\* message is appended to the history from then on.
C16_TeardownAbortsSilently ==
    [][/\ (mounted /\ ~mounted') =>
            /\ \A r \in PendingRequests : requests'[r].state = "canceled"
            /\ UNCHANGED messages
       /\ ~mounted => (UNCHANGED messages /\ PendingRequests = {})]_vars

\* the component was torn down with a request pending, and the timer of
\* that request has fired since
C16_Witness ==
    /\ ~mounted
    /\ issued = 2
    /\ requests[2].state = "canceled"
    /\ requests[1].state = "succeeded"
    /\ timers = <<>>
    /\ event.op = "timeout"
    /\ event.req = Null

\* C17: the history never holds two consecutive bot messages, and a bot
\* message is appended only for the latest request issued, right after the
\* user message of that request.
C17_RepliesPairedWithPrompts ==
    [][/\ \A i \in 1..(Len(messages') - 1) :
            messages'[i].isUser \/ messages'[i + 1].isUser
       /\ \A r \in RequestIds :
            (Ends(r, "succeeded") \/ Ends(r, "failed")) =>
                /\ r = issued
                /\ messages # <<>>
                /\ Last(messages) = requests[r].userMessage
                /\ AppendedOneBotMessage
       /\ (messages' # messages /\ ~Last(messages').isUser) =>
            \E r \in RequestIds : Ends(r, "succeeded") \/ Ends(r, "failed")]_vars

\* a full history of reply, prompt, reply
C17_Witness ==
    /\ Len(messages) = 3
    /\ ~messages[1].isUser
    /\ messages[2].isUser
    /\ ~messages[3].isUser
    /\ messages[2] = requests[issued].userMessage

\* C18: the body an accepted submission posts holds one message, of role
\* user, whose content is the trimmed input and the text of the user message
\* appended to the history.
C18_RequestCarriesTrimmedInputOnly ==
    [][(IsSendMessageCall /\ event'.req # Null) =>
          LET sent == requests'[event'.req].body.messages IN
          /\ Len(sent) = 1
          /\ sent[1].role = "user"
          /\ IsTrimOf(sent[1].content, input)
          /\ sent[1].content # <<>>
          /\ messages' # <<>>
          /\ Last(messages').isUser
          /\ Last(messages').text = sent[1].content]_vars

\* a request was posted with earlier exchanges in the history
C18_Witness ==
    /\ event.op = "sendMessage"
    /\ event.req = 2
    /\ IsPending(2)
    /\ Len(messages) = 3
    /\ requests[2].body.messages = <<[role |-> "user", content |-> <<"a", " ", "b">>]>>

====
